---- MODULE Spec2Model ----
\* Model of the document comparison tool: the diff segmenter and the
\* orchestrating DocumentComparator component (document-comparator.tsx), the
\* line-anchored DocumentViewer and the App that mounts them
\* (document-viewer.tsx).
\*
\* A text is a sequence of one-character strings; NL is the newline character.
EXTENDS Integers, Sequences, FiniteSets, TLC

\* ------------------------------------------------------------------ bounds
MaxOps == 3        \* longest op sequence drawn for the segmenter
MaxChars == 3      \* total number of characters over the ops of a drawn sequence

\* ------------------------------------------------------- program constants
PreviewLen == 50
DIFF_DELETE == -1
DIFF_INSERT == 1
DIFF_EQUAL == 0

NL == "\n"
Ellipsis == <<".", ".", ".">>

\* ------------------------------------------------------------ JS helpers
Min(a, b) == IF a < b THEN a ELSE b
Max(a, b) == IF a > b THEN a ELSE b

\* String.prototype.split(sep) for a one-character separator.
RECURSIVE Split(_, _)
Split(s, sep) ==
  IF \A i \in 1..Len(s) : s[i] # sep
  THEN <<s>>
  ELSE LET i == CHOOSE k \in 1..Len(s) :
                  s[k] = sep /\ \A j \in 1..(k - 1) : s[j] # sep
       IN <<SubSeq(s, 1, i - 1)>> \o Split(SubSeq(s, i + 1, Len(s)), sep)

\* String.prototype.substring(0, n).
Substring0(s, n) == SubSeq(s, 1, Min(n, Len(s)))

\* ------------------------------------------------------------- segmenter
VARIABLES
  diffs,       \* the op sequence returned by diff_main: <<type, text>> pairs
  idx,         \* position of diffs.forEach (1-based; Len(diffs)+1 when done)
  cursorA, cursorB, diffId, diffItems, diffsA, diffsB,
  prevRun      \* what the previous pass produced (<<>> before the first ends)

segVars == <<diffs, idx, cursorA, cursorB, diffId, diffItems, diffsA, diffsB,
             prevRun>>

\* The App and the mounted DocumentComparator.
VARIABLES
  docView, fileA, fileB,
  contentA, contentB, differences, differencesA, differencesB,
  isComparing, lastComparedKeyRef,
  reads,       \* readFileContent promises not yet resolved: [side, file, value]
  task,        \* the queued microtask of performComparison, or NoTask
  diffCalls,   \* history: the argument pairs diff_main was called with since the mount
  published    \* history: a comparison of this session has set non-empty results

appVars == <<docView, fileA, fileB, contentA, contentB, differences,
             differencesA, differencesB, isComparing, lastComparedKeyRef,
             reads, task, diffCalls, published>>

\* One DocumentViewer render.
VARIABLES
  vContent,      \* prop content
  vDifferences,  \* prop differences
  vLineIdx,      \* position of lines.map (0-based)
  vRendered      \* per rendered line: its label id and its pieces

viewVars == <<vContent, vDifferences, vLineIdx, vRendered>>

\* React's rendering of the mounted DocumentComparator, step by step.
VARIABLES
  dirty,          \* a prop or a state changed since the last committed render
  renderedDeps,   \* the effects' dependency arrays of the last committed render
  pendingEffects, \* the passive effects of the last commit not yet run, with
                  \* the values of that render, or none
  propChanges,    \* how often the parent has changed a prop since the mount
  shown           \* history: the texts whose comparison set the current results

rxVars == <<dirty, renderedDeps, pendingEffects, propChanges, shown>>

vars == <<segVars, appVars, rxVars, viewVars>>

InitialCursor == [line |-> 0, col |-> 0]
InitialDiffId == 1

\* Fault variant: the line is not advanced over the newlines of the text.
advanceCursor_noLine(cursor, text) ==
  LET parts == Split(text, NL)
  IN IF Len(parts) = 1
     THEN [cursor EXCEPT !.col = cursor.col + Len(text)]
     ELSE [line |-> cursor.line, col |-> Len(parts[Len(parts)])]

advanceCursor(cursor, text) ==
  LET parts == Split(text, NL)
  IN IF Len(parts) = 1
     THEN [cursor EXCEPT !.col = cursor.col + Len(text)]
     ELSE [line |-> cursor.line + (Len(parts) - 1),
           col |-> Len(parts[Len(parts)])]

SegmentType(which) == IF which = "A" THEN "deletion" ELSE "addition"

\* Fault variant: the ellipsis is appended from 50 characters on.
Preview_offByOne(chunk) ==
  Substring0(chunk, PreviewLen)
    \o (IF Len(chunk) >= PreviewLen THEN Ellipsis ELSE <<>>)

Preview(chunk) ==
  Substring0(chunk, PreviewLen)
    \o (IF Len(chunk) > PreviewLen THEN Ellipsis ELSE <<>>)

PositionStr(line, col) == <<"L", line + 1, "C", col + 1>>

DiffItemOf(which, nextId, line, col, chunk) ==
  [id |-> nextId,
   type |-> SegmentType(which),
   textA |-> IF which = "A" THEN Preview(chunk) ELSE <<>>,
   textB |-> IF which = "B" THEN Preview(chunk) ELSE <<>>,
   position |-> PositionStr(line, col)]

SegmentOf(which, nextId, line, col, chunk) ==
  [id |-> nextId,
   type |-> SegmentType(which),
   line |-> line,
   startCol |-> col,
   endCol |-> col + Len(chunk),
   text |-> chunk]

\* Fault variant: empty chunks are emitted too.
ChunkEmits_always(chunk) == TRUE

ChunkEmits(chunk) == Len(chunk) > 0

\* Fault variant: the id counter is not incremented.
IdAfterEmit_same(nextId) == nextId

IdAfterEmit(nextId) == nextId + 1

\* Fault variant: the column is not reset on the next line.
ColAfterNewline_keep(col) == col

ColAfterNewline(col) == 0

\* lines.forEach of addSegmentsForText from chunk k on: what it pushes to
\* diffItems and to the side's segment list, and the id it ends with.
RECURSIVE ForEachChunk(_, _, _, _, _, _)
ForEachChunk(which, lines, k, line, col, nextId) ==
  IF k > Len(lines)
  THEN [items |-> <<>>, segs |-> <<>>, nextId |-> nextId]
  ELSE LET chunk == lines[k]
           emits == ChunkEmits(chunk)
           last == ~(k - 1 < Len(lines) - 1)
           rest == ForEachChunk(which, lines, k + 1,
                     IF last THEN line ELSE line + 1,
                     IF last THEN col + Len(chunk) ELSE ColAfterNewline(col),
                     IF emits THEN IdAfterEmit(nextId) ELSE nextId)
       IN [items |-> (IF emits
                      THEN <<DiffItemOf(which, nextId, line, col, chunk)>>
                      ELSE <<>>) \o rest.items,
           segs |-> (IF emits
                     THEN <<SegmentOf(which, nextId, line, col, chunk)>>
                     ELSE <<>>) \o rest.segs,
           nextId |-> rest.nextId]

addSegmentsForText(which, text, baseCursor, startingId) ==
  ForEachChunk(which, Split(text, NL), 1, baseCursor.line, baseCursor.col,
               startingId)

\* The locals of one comparison pass, as a record.
PassStart ==
  [cursorA |-> InitialCursor, cursorB |-> InitialCursor,
   diffId |-> InitialDiffId,
   diffItems |-> <<>>, diffsA |-> <<>>, diffsB |-> <<>>]

\* Fault variant: a delete or insert op leaves the cursor of its side where
\* it was.
ForEachDiff_noAdvance(st, diff) ==
  LET type == diff[1]
      text == diff[2]
  IN IF type = DIFF_DELETE
     THEN LET r == addSegmentsForText("A", text, st.cursorA, st.diffId)
          IN [st EXCEPT !.diffItems = st.diffItems \o r.items,
                        !.diffsA = st.diffsA \o r.segs,
                        !.diffId = r.nextId]
     ELSE IF type = DIFF_INSERT
     THEN LET r == addSegmentsForText("B", text, st.cursorB, st.diffId)
          IN [st EXCEPT !.diffItems = st.diffItems \o r.items,
                        !.diffsB = st.diffsB \o r.segs,
                        !.diffId = r.nextId]
     ELSE [st EXCEPT !.cursorA = advanceCursor(st.cursorA, text),
                     !.cursorB = advanceCursor(st.cursorB, text)]

\* The body of diffs.forEach for one op.
ForEachDiff(st, diff) ==
  LET type == diff[1]
      text == diff[2]
  IN IF type = DIFF_DELETE
     THEN LET r == addSegmentsForText("A", text, st.cursorA, st.diffId)
          IN [st EXCEPT !.diffItems = st.diffItems \o r.items,
                        !.diffsA = st.diffsA \o r.segs,
                        !.diffId = r.nextId,
                        !.cursorA = advanceCursor(st.cursorA, text)]
     ELSE IF type = DIFF_INSERT
     THEN LET r == addSegmentsForText("B", text, st.cursorB, st.diffId)
          IN [st EXCEPT !.diffItems = st.diffItems \o r.items,
                        !.diffsB = st.diffsB \o r.segs,
                        !.diffId = r.nextId,
                        !.cursorB = advanceCursor(st.cursorB, text)]
     ELSE [st EXCEPT !.cursorA = advanceCursor(st.cursorA, text),
                     !.cursorB = advanceCursor(st.cursorB, text)]

RECURSIVE SegmentFrom(_, _, _)
SegmentFrom(st, ops, k) ==
  IF k > Len(ops) THEN st ELSE SegmentFrom(ForEachDiff(st, ops[k]), ops, k + 1)

\* The whole pass over an op sequence.
Segmentation(ops) == SegmentFrom(PassStart, ops, 1)

\* ------------------------------------------- segmenter: inputs and steps
\* Drawn texts use one letter per op kind, so that a segment anchored in the
\* wrong place reads a character of another op.
CharOf(type) ==
  IF type = DIFF_DELETE THEN "d" ELSE IF type = DIFF_INSERT THEN "i" ELSE "e"

RECURSIVE TextsOf(_, _)
TextsOf(c, n) ==
  IF n = 0 THEN {<<>>}
  ELSE LET p == TextsOf(c, n - 1)
       IN p \cup {Append(s, ch) : s \in p, ch \in {c, NL}}

OpTypes == {DIFF_DELETE, DIFF_INSERT, DIFF_EQUAL}

RECURSIVE OpSeqs(_, _)
OpSeqs(n, t) ==
  IF n = 0 THEN {<<>>}
  ELSE {<<>>} \cup
       UNION { UNION { { <<<<ty, tx>>>> \o r : r \in OpSeqs(n - 1, t - Len(tx)) }
                       : tx \in TextsOf(CharOf(ty), t) }
               : ty \in OpTypes }

Run(c, n) == [i \in 1..n |-> c]
RunLens == {49, 50, 51, 60}

CatOps == << <<DIFF_EQUAL, <<"c", "a", "t">>>>, <<DIFF_INSERT, <<"s">>>> >>
HelloOps == << <<DIFF_EQUAL, <<"h", "i", NL, "y", "o">>>> >>
Line2Ops == << <<DIFF_EQUAL, <<"l", "1", NL>>>>,
               <<DIFF_DELETE, <<"l", "2">>>>,
               <<DIFF_INSERT, <<"L", "2">>>> >>

MixedOps == << <<DIFF_EQUAL, <<"a", "b", NL, "c">>>>,
               <<DIFF_DELETE, <<"d", NL, NL, "f">>>>,
               <<DIFF_INSERT, <<"x", NL, NL, "y">>>>,
               <<DIFF_EQUAL, <<"j">>>>,
               <<DIFF_DELETE, <<"k">>>> >>

ScenarioOps ==
  {CatOps, HelloOps, Line2Ops, MixedOps}
    \cup { << <<ty, Run("x", n)>> >> : ty \in {DIFF_DELETE, DIFF_INSERT}, n \in RunLens }
    \cup { << <<DIFF_EQUAL, <<"e", NL, "e">>>>, <<DIFF_INSERT, Run("x", n)>> >>
           : n \in RunLens }

SegInit ==
  /\ diffs \in OpSeqs(MaxOps, MaxChars) \cup ScenarioOps
  /\ idx = 1
  /\ cursorA = PassStart.cursorA
  /\ cursorB = PassStart.cursorB
  /\ diffId = PassStart.diffId
  /\ diffItems = PassStart.diffItems
  /\ diffsA = PassStart.diffsA
  /\ diffsB = PassStart.diffsB
  /\ prevRun = <<>>

Locals ==
  [cursorA |-> cursorA, cursorB |-> cursorB, diffId |-> diffId,
   diffItems |-> diffItems, diffsA |-> diffsA, diffsB |-> diffsB]

SetLocals(st) ==
  /\ cursorA' = st.cursorA
  /\ cursorB' = st.cursorB
  /\ diffId' = st.diffId
  /\ diffItems' = st.diffItems
  /\ diffsA' = st.diffsA
  /\ diffsB' = st.diffsB

PassDone == idx > Len(diffs)

ProcessOp(type) ==
  /\ ~PassDone
  /\ diffs[idx][1] = type
  /\ SetLocals(ForEachDiff(Locals, diffs[idx]))
  /\ idx' = idx + 1
  /\ UNCHANGED <<diffs, prevRun>>
  /\ UNCHANGED <<appVars, rxVars, viewVars>>

ProcessDelete == ProcessOp(DIFF_DELETE)
ProcessInsert == ProcessOp(DIFF_INSERT)
ProcessEqual == ProcessOp(DIFF_EQUAL)

\* The callback is invoked a second time on the same ops: its locals are
\* created anew.
Rerun ==
  /\ PassDone
  /\ prevRun = <<>>
  /\ prevRun' = <<[diffItems |-> diffItems, diffsA |-> diffsA, diffsB |-> diffsB]>>
  /\ SetLocals(PassStart)
  /\ idx' = 1
  /\ UNCHANGED diffs
  /\ UNCHANGED <<appVars, rxVars, viewVars>>

\* ---------------------------------------------------- segmenter: claims
\* The two documents an op sequence is valid for.
RECURSIVE ConcatOps(_, _, _)
ConcatOps(ops, k, types) ==
  IF k > Len(ops) THEN <<>>
  ELSE (IF ops[k][1] \in types THEN ops[k][2] ELSE <<>>)
         \o ConcatOps(ops, k + 1, types)

DocA(ops) == ConcatOps(ops, 1, {DIFF_EQUAL, DIFF_DELETE})
DocB(ops) == ConcatOps(ops, 1, {DIFF_EQUAL, DIFF_INSERT})

SeqRange(q) == {q[i] : i \in DOMAIN q}

Anchored(s, lines) ==
  /\ s.line + 1 \in 1..Len(lines)
  /\ s.startCol >= 0
  /\ s.endCol <= Len(lines[s.line + 1])
  /\ SubSeq(lines[s.line + 1], s.startCol + 1, s.endCol) = s.text

\* C1: every deletion segment is anchored in document A and every addition
\* segment in document B: its line exists and the columns [startCol, endCol)
\* of that line read the segment's text; and the ops [equal "cat", insert "s"]
\* give exactly one addition segment, line 0, columns 3 to 4, text "s".
C1_AnchorAlignment ==
  /\ \A s \in SeqRange(diffsA) :
       s.type = "deletion" /\ Anchored(s, Split(DocA(diffs), NL))
  /\ \A s \in SeqRange(diffsB) :
       s.type = "addition" /\ Anchored(s, Split(DocB(diffs), NL))
  /\ (diffs = CatOps /\ PassDone) =>
       /\ diffsA = <<>>
       /\ Len(diffsB) = 1
       /\ diffsB[1].type = "addition"
       /\ diffsB[1].line = 0
       /\ diffsB[1].startCol = 3
       /\ diffsB[1].endCol = 4
       /\ diffsB[1].text = <<"s">>

C1_Witness ==
  /\ PassDone
  /\ \E s \in SeqRange(diffsA) : s.line > 0 /\ s.startCol > 0
  /\ diffsB # <<>>

StrictlyIncreasingIds(q) ==
  \A j, k \in DOMAIN q : j < k => q[j].id < q[k].id

\* C2: ids come from one counter that starts at 1, strictly increase in
\* emission order over both sides, never occur twice in segmentsA and
\* segmentsB together, and a second pass over the same ops gives the same
\* result as the first.
C2_SegmentIds ==
  /\ diffItems # <<>> => diffItems[1].id = 1
  /\ StrictlyIncreasingIds(diffItems)
  /\ StrictlyIncreasingIds(diffsA)
  /\ StrictlyIncreasingIds(diffsB)
  /\ \A a \in SeqRange(diffsA), b \in SeqRange(diffsB) : a.id # b.id
  /\ {s.id : s \in SeqRange(diffsA) \cup SeqRange(diffsB)}
       = {it.id : it \in SeqRange(diffItems)}
  /\ \A it \in SeqRange(diffItems) : it.id < diffId
  /\ (PassDone /\ prevRun # <<>>) =>
       prevRun[1] = [diffItems |-> diffItems, diffsA |-> diffsA, diffsB |-> diffsB]

C2_Witness ==
  /\ PassDone
  /\ prevRun # <<>>
  /\ Len(diffsA) >= 2
  /\ Len(diffsB) >= 1
  /\ \E a \in SeqRange(diffsA), b \in SeqRange(diffsB) : a.id < b.id
  /\ \E a \in SeqRange(diffsA), b \in SeqRange(diffsB) : b.id < a.id

\* C3: every emitted segment has line >= 0, 0 <= startCol < endCol,
\* endCol - startCol equal to the length of its text, and no newline in its
\* text.
C3_WellFormed ==
  \A s \in SeqRange(diffsA) \cup SeqRange(diffsB) :
    /\ s.line >= 0
    /\ 0 <= s.startCol
    /\ s.startCol < s.endCol
    /\ s.endCol - s.startCol = Len(s.text)
    /\ \A i \in DOMAIN s.text : s.text[i] # NL

C3_Witness ==
  /\ PassDone
  /\ \E i \in DOMAIN diffs : diffs[i][1] # DIFF_EQUAL /\ diffs[i][2] = <<>>
  /\ \E i \in DOMAIN diffs : diffs[i][1] # DIFF_EQUAL /\ diffs[i][2] = <<NL, NL>>
  /\ diffsA \o diffsB # <<>>

NonEmptyIdx(chunks) == {k \in DOMAIN chunks : chunks[k] # <<>>}
Rank(k, S) == Cardinality({j \in S : j <= k})

\* What an op with this text, met at this cursor, appends to its side.
EmitsChunks(text, cursor, before, after) ==
  LET chunks == Split(text, NL)
      S == NonEmptyIdx(chunks)
      n == Len(before)
  IN /\ Len(after) = n + Cardinality(S)
     /\ SubSeq(after, 1, n) = before
     /\ \A k \in S :
          LET s == after[n + Rank(k, S)]
          IN /\ s.text = chunks[k]
             /\ s.line = cursor.line + (k - 1)
             /\ s.startCol = (IF k = 1 THEN cursor.col ELSE 0)

C4_Step ==
  (~PassDone /\ idx' = idx + 1) =>
    LET type == diffs[idx][1]
        text == diffs[idx][2]
        added == Cardinality(NonEmptyIdx(Split(text, NL)))
    IN /\ type = DIFF_EQUAL =>
            diffItems' = diffItems /\ diffsA' = diffsA /\ diffsB' = diffsB
       /\ type = DIFF_DELETE =>
            /\ EmitsChunks(text, cursorA, diffsA, diffsA')
            /\ diffsB' = diffsB
            /\ Len(diffItems') = Len(diffItems) + added
       /\ type = DIFF_INSERT =>
            /\ EmitsChunks(text, cursorB, diffsB, diffsB')
            /\ diffsA' = diffsA
            /\ Len(diffItems') = Len(diffItems) + added
       /\ (\A i \in DOMAIN diffs : diffs[i][1] = DIFF_EQUAL) =>
            diffItems' = <<>> /\ diffsA' = <<>> /\ diffsB' = <<>>

\* C4: an equal op emits nothing; a delete or insert op emits one segment per
\* non-empty chunk of its text split on newline, in chunk order; chunk k > 0
\* is anchored at line (start line + k), column 0, and chunk 0 at the cursor.
C4_EmissionRule == [][C4_Step]_vars

C4_Witness ==
  /\ PassDone
  /\ \E i \in DOMAIN diffs :
       diffs[i][1] = DIFF_INSERT /\ diffs[i][2] = <<"x", NL, NL, "y">>
  /\ \E s \in SeqRange(diffsB) : s.line = 1 /\ s.startCol = 1
  /\ \E s \in SeqRange(diffsB) : s.line = 3 /\ s.startCol = 0
  /\ \E i \in DOMAIN diffs : diffs[i][1] = DIFF_EQUAL /\ diffs[i][2] # <<>>

ExpectedPreview(t) ==
  IF Len(t) > 50 THEN SubSeq(t, 1, 50) \o <<".", ".", ".">> ELSE t

\* C5: reportItems has one item per emitted segment, in emission order, with
\* the segment's id and type; textA (deletion) or textB (addition) is the
\* first 50 characters of the segment text, followed by "..." iff the text is
\* longer than 50; the position shows line + 1 and startCol + 1.
C5_ReportMirrorsSegments ==
  /\ Len(diffItems) = Len(diffsA) + Len(diffsB)
  /\ StrictlyIncreasingIds(diffItems)
  /\ \A it \in SeqRange(diffItems) :
       LET side == IF it.type = "deletion" THEN diffsA ELSE diffsB
       IN /\ it.type \in {"deletion", "addition"}
          /\ \E s \in SeqRange(side) :
               /\ s.id = it.id
               /\ s.type = it.type
               /\ it.textA = (IF it.type = "deletion" THEN ExpectedPreview(s.text) ELSE <<>>)
               /\ it.textB = (IF it.type = "addition" THEN ExpectedPreview(s.text) ELSE <<>>)
               /\ it.position = <<"L", s.line + 1, "C", s.startCol + 1>>
  /\ (diffs = << <<DIFF_INSERT, Run("x", 60)>> >> /\ PassDone) =>
       /\ Len(diffsB) = 1
       /\ Len(diffsB[1].text) = 60
       /\ Len(diffItems) = 1
       /\ diffItems[1].textB = Run("x", 50) \o <<".", ".", ".">>

C5_Witness ==
  /\ PassDone
  /\ \E it \in SeqRange(diffItems) :
       Len(it.textB) = 53 /\ it.position[2] = 2 /\ it.position[4] = 2

\* Document order of two segments of one side: by line, then by start column.
Before(s, t) ==
  \/ s.line < t.line
  \/ s.line = t.line /\ s.startCol < t.startCol

InDocumentOrder(q) ==
  \A j, k \in DOMAIN q :
    j < k => /\ Before(q[j], q[k])
             /\ q[j].line = q[k].line => q[j].endCol <= q[k].startCol

\* C12: at every step of a pass over a valid op sequence, the segments of
\* segmentsA, and those of segmentsB, are strictly increasing by
\* (line, startCol), and of two segments on the same line of one side the
\* earlier one ends at or before the column where the later one starts.
C12_OrderAndNonOverlap ==
  /\ InDocumentOrder(diffsA)
  /\ InDocumentOrder(diffsB)

\* Two segments share a line of document A, two follow each other on
\* different lines of it, and so do two of document B.
C12_Witness ==
  /\ PassDone
  /\ \E j, k \in DOMAIN diffsA :
       j < k /\ diffsA[j].line = diffsA[k].line /\ diffsA[j].endCol < diffsA[k].startCol
  /\ \E j, k \in DOMAIN diffsA : j < k /\ diffsA[j].line < diffsA[k].line
  /\ \E j, k \in DOMAIN diffsB : j < k /\ diffsB[j].line < diffsB[k].line

\* ------------------------------------------------- App and comparator
\* A File: its name (characters), the text file.text() gives, the value
\* mammoth.extractRawText gives for its bytes, its size and lastModified.
\* A prop or state that may be null is a sequence of at most one element.
KeyPrefixLen == 32

PdfPlaceholder ==
  <<"zan", "bu", "zhi", "chi", "P", "D", "F", "ge", "shi", "de", "xiang",
    "xi", "dui", "bi", ",", "qing", "zhuan", "huan", "wei", "T", "X", "T",
    "huo", "D", "O", "C", "X", "ge", "shi">>

LowerChar(c) ==
  CASE c = "T" -> "t" [] c = "X" -> "x" [] c = "D" -> "d" [] c = "O" -> "o"
    [] c = "C" -> "c" [] c = "P" -> "p" [] c = "F" -> "f"
    [] OTHER -> c

\* Fault variant: the file type is compared without lower-casing.
toLowerCase_missing(str) == str

toLowerCase(str) == [i \in DOMAIN str |-> LowerChar(str[i])]

Last(q) == q[Len(q)]

readFileContent(file) ==
  LET fileType == toLowerCase(Last(Split(file.name, ".")))
  IN IF fileType = <<"t", "x", "t">> THEN file.text
     ELSE IF fileType = <<"d", "o", "c", "x">> \/ fileType = <<"d", "o", "c">>
     THEN file.docValue
     ELSE IF fileType = <<"p", "d", "f">> THEN PdfPlaceholder
     ELSE <<>>

FileNames ==
  { <<"a", ".", "t", "x", "t">>, <<"a", ".", "T", "X", "T">>,
    <<"b", ".", "d", "o", "c", "x">>, <<"c", ".", "d", "o", "c">>,
    <<"d", ".", "p", "d", "f">>, <<"e", ".", "p", "n", "g">>,
    <<"t", "x", "t", ".", "b", "a", "k">>, <<"t", "x", "t">> }

FileBodies ==
  { [text |-> <<>>, docValue |-> <<>>],
    [text |-> <<"a">>, docValue |-> <<"a", NL, "b">>],
    [text |-> <<"a", NL, "b">>, docValue |-> <<"a">>],
    [text |-> <<"b", "a">>, docValue |-> <<>>] }

Files ==
  { [name |-> n, text |-> b.text, docValue |-> b.docValue,
     size |-> Len(b.text), lastModified |-> 0]
    : n \in FileNames, b \in FileBodies }

FileOrNull == {<<>>} \cup {<<f>> : f \in Files}

\* String.prototype.slice(0, n) for n >= 0.
SlicePrefix(str, n) == SubSeq(str, 1, Min(n, Len(str)))

compareKey(fA, fB, cA, cB) ==
  LET metaA == IF fA # <<>>
               THEN <<fA[1].name, fA[1].size, fA[1].lastModified>>
               ELSE <<"noA">>
      metaB == IF fB # <<>>
               THEN <<fB[1].name, fB[1].size, fB[1].lastModified>>
               ELSE <<"noB">>
      sigA == <<Len(cA), SlicePrefix(cA, KeyPrefixLen)>>
      sigB == <<Len(cB), SlicePrefix(cB, KeyPrefixLen)>>
  IN <<metaA, metaB, sigA, sigB>>

\* fileA && fileB && contentA && contentB: the first falsy operand, else the last.
canCompare(fA, fB, cA, cB) ==
  IF fA = <<>> \/ fB = <<>> THEN <<"null">>
  ELSE IF cA = <<>> THEN <<"string", cA>>
  ELSE <<"string", cB>>

Truthy(v) == v # <<"null">> /\ v # <<"string", <<>>>>

\* Fault variant: no early return on an empty content.
performComparison_unguarded(cA, cB, comparing) ==
  [isComparing |-> TRUE, task |-> <<[a |-> cA, b |-> cB]>>]

\* performComparison up to the queued microtask: what it leaves in
\* isComparing and in the microtask queue.
performComparison(cA, cB, comparing) ==
  IF cA = <<>> \/ cB = <<>>
  THEN [isComparing |-> comparing, task |-> <<>>]
  ELSE [isComparing |-> TRUE, task |-> <<[a |-> cA, b |-> cB]>>]

\* Fault variant: the effect and performComparison without their guards.
ComparisonEffect_unguarded(fA, fB, cA, cB, comparing, lastKey) ==
  LET p == performComparison_unguarded(cA, cB, comparing)
  IN [lastComparedKeyRef |-> compareKey(fA, fB, cA, cB),
      isComparing |-> p.isComparing, task |-> p.task]

\* The comparison effect, run with the values of the render it belongs to.
ComparisonEffect(fA, fB, cA, cB, comparing, lastKey) ==
  IF ~Truthy(canCompare(fA, fB, cA, cB))
       \/ comparing
       \/ lastKey = compareKey(fA, fB, cA, cB)
  THEN [lastComparedKeyRef |-> lastKey, isComparing |-> comparing, task |-> <<>>]
  ELSE LET p == performComparison(cA, cB, comparing)
       IN [lastComparedKeyRef |-> compareKey(fA, fB, cA, cB),
           isComparing |-> p.isComparing, task |-> p.task]

\* The effect's dependency array.
EffectDeps(fA, fB, cA, cB) ==
  <<canCompare(fA, fB, cA, cB), compareKey(fA, fB, cA, cB)>>

\* diff_main is an external capability (diff-match-patch), modelled by its
\* contract: any sequence of at most n non-empty ops whose equal+delete texts
\* give a and whose equal+insert texts give b.
MaxDiffOps == 2

CommonPrefixLen(a, b) ==
  LET S == {k \in 0..Min(Len(a), Len(b)) : SubSeq(a, 1, k) = SubSeq(b, 1, k)}
  IN CHOOSE k \in S : \A j \in S : j <= k

Rest(q, k) == SubSeq(q, k + 1, Len(q))

RECURSIVE diff_main(_, _, _)
diff_main(a, b, n) ==
  IF a = <<>> /\ b = <<>> THEN {<<>>}
  ELSE IF n = 0 THEN {}
  ELSE UNION { { <<<<DIFF_EQUAL, SubSeq(a, 1, k)>>>> \o r
                 : r \in diff_main(Rest(a, k), Rest(b, k), n - 1) }
               : k \in 1..CommonPrefixLen(a, b) }
       \cup
       UNION { { <<<<DIFF_DELETE, SubSeq(a, 1, k)>>>> \o r
                 : r \in diff_main(Rest(a, k), b, n - 1) }
               : k \in 1..Len(a) }
       \cup
       UNION { { <<<<DIFF_INSERT, SubSeq(b, 1, k)>>>> \o r
                 : r \in diff_main(a, Rest(b, k), n - 1) }
               : k \in 1..Len(b) }

\* Fault variant: setDifferencesA is not called.
SetResults_withoutA(st) ==
  [differences |-> st.diffItems, differencesA |-> differencesA,
   differencesB |-> st.diffsB]

\* setDifferences, setDifferencesA, setDifferencesB at the end of the pass.
SetResults(st) ==
  [differences |-> st.diffItems, differencesA |-> st.diffsA,
   differencesB |-> st.diffsB]

\* The useState and useRef initial values of a DocumentComparator instance.
NoInstance ==
  /\ contentA = <<>>
  /\ contentB = <<>>
  /\ differences = <<>>
  /\ differencesA = <<>>
  /\ differencesB = <<>>
  /\ isComparing = FALSE
  /\ lastComparedKeyRef = <<>>
  /\ reads = {}
  /\ task = <<>>
  /\ diffCalls = {}

AppInit ==
  /\ docView = "upload"
  /\ fileA = <<>>
  /\ fileB = <<>>
  /\ published = FALSE
  /\ NoInstance

\* The file loading effect of one side, at mount.
FileEffect(side, f) ==
  IF f # <<>>
  THEN {[side |-> side, file |-> f[1], value |-> readFileContent(f[1])]}
  ELSE {}

\* FileUploader's onFileSelect (setFileA, setFileB); the uploaders are
\* rendered in the upload view only.
SelectFile(side, f) ==
  /\ docView = "upload"
  /\ IF side = "A" THEN fileA' = f /\ fileB' = fileB
                   ELSE fileB' = f /\ fileA' = fileA
  /\ UNCHANGED <<docView, contentA, contentB, differences, differencesA,
                 differencesB, isComparing, lastComparedKeyRef, reads, task,
                 diffCalls, published>>
  /\ UNCHANGED <<segVars, rxVars, viewVars>>

\* handleStartComparison: the compare view mounts a new DocumentComparator,
\* whose effects run: both files are read, and the comparison effect sees
\* the initial (empty) contents.
StartComparison ==
  /\ docView = "upload"
  /\ fileA # <<>>
  /\ fileB # <<>>
  /\ docView' = "compare"
  /\ LET e == ComparisonEffect(fileA, fileB, <<>>, <<>>, FALSE, <<>>)
     IN /\ lastComparedKeyRef' = e.lastComparedKeyRef
        /\ isComparing' = e.isComparing
        /\ task' = e.task
  /\ reads' = FileEffect("A", fileA) \cup FileEffect("B", fileB)
  /\ contentA' = <<>>
  /\ contentB' = <<>>
  /\ differences' = <<>>
  /\ differencesA' = <<>>
  /\ differencesB' = <<>>
  /\ diffCalls' = {}
  /\ UNCHANGED <<fileA, fileB, published>>
  /\ UNCHANGED <<segVars, rxVars, viewVars>>

\* A readFileContent promise resolves: setContentA / setContentB, the
\* render that follows, and the comparison effect if its dependencies changed.
ReadResolved(r) ==
  /\ docView = "compare"
  /\ task = <<>>
  /\ r \in reads
  /\ reads' = reads \ {r}
  /\ contentA' = (IF r.side = "A" THEN r.value ELSE contentA)
  /\ contentB' = (IF r.side = "B" THEN r.value ELSE contentB)
  /\ IF EffectDeps(fileA, fileB, contentA', contentB')
          # EffectDeps(fileA, fileB, contentA, contentB)
     THEN LET e == ComparisonEffect(fileA, fileB, contentA', contentB',
                                    isComparing, lastComparedKeyRef)
          IN /\ lastComparedKeyRef' = e.lastComparedKeyRef
             /\ isComparing' = e.isComparing
             /\ task' = e.task
     ELSE UNCHANGED <<lastComparedKeyRef, isComparing, task>>
  /\ UNCHANGED <<docView, fileA, fileB, differences, differencesA,
                 differencesB, diffCalls, published>>
  /\ UNCHANGED <<segVars, rxVars, viewVars>>

\* The microtask queued by performComparison: diff, segment, set the results.
RunComparison ==
  /\ task # <<>>
  /\ \E ops \in diff_main(task[1].a, task[1].b, MaxDiffOps) :
       LET res == SetResults(Segmentation(ops))
       IN /\ differences' = res.differences
          /\ differencesA' = res.differencesA
          /\ differencesB' = res.differencesB
          /\ published' = (published \/ res.differences # <<>>)
  /\ isComparing' = FALSE
  /\ task' = <<>>
  /\ diffCalls' = diffCalls \cup {<<task[1].a, task[1].b>>}
  /\ UNCHANGED <<docView, fileA, fileB, contentA, contentB,
                 lastComparedKeyRef, reads>>
  /\ UNCHANGED <<segVars, rxVars, viewVars>>

\* The back button: the upload view replaces the comparator, whose state
\* and pending callbacks are discarded.
Back ==
  /\ docView = "compare"
  /\ task = <<>>
  /\ docView' = "upload"
  /\ contentA' = <<>>
  /\ contentB' = <<>>
  /\ differences' = <<>>
  /\ differencesA' = <<>>
  /\ differencesB' = <<>>
  /\ isComparing' = FALSE
  /\ lastComparedKeyRef' = <<>>
  /\ reads' = {}
  /\ task' = <<>>
  /\ diffCalls' = {}
  /\ UNCHANGED <<fileA, fileB, published>>
  /\ UNCHANGED <<segVars, rxVars, viewVars>>

\* ------------------------------- DocumentComparator under any parent
\* The component takes fileA and fileB as props; its parent may hand it
\* other files while it stays mounted. React renders it when a prop or a
\* state changed, and runs the effects of a committed render later, with the
\* values of that render.
MaxPropChanges == 1

PropFiles ==
  { f \in Files :
      \/ f.name = <<"a", ".", "t", "x", "t">> /\ f.text # <<>>
      \/ f.name = <<"e", ".", "p", "n", "g">> /\ f.text = <<"a">> }

PropValues == {<<>>} \cup {<<f>> : f \in PropFiles}

\* The dependency arrays of the three effects, from the current values.
DepsNow ==
  [fileA |-> fileA, fileB |-> fileB,
   comparison |-> EffectDeps(fileA, fileB, contentA, contentB)]

\* What the effects of a render close over, and which of them are to run.
Closure(runA, runB, runComparison) ==
  [fileA |-> fileA, fileB |-> fileB, contentA |-> contentA,
   contentB |-> contentB, isComparing |-> isComparing,
   runA |-> runA, runB |-> runB, runComparison |-> runComparison]

RxIdle ==
  /\ dirty = FALSE
  /\ renderedDeps = <<>>
  /\ pendingEffects = <<>>
  /\ propChanges = 0
  /\ shown = <<>>

\* The mount: the first render is committed with the initial state, and all
\* three effects are due.
ComparatorInit ==
  /\ docView = "compare"
  /\ fileA \in PropValues
  /\ fileB \in PropValues
  /\ published = FALSE
  /\ NoInstance
  /\ dirty = FALSE
  /\ renderedDeps = DepsNow
  /\ pendingEffects = <<Closure(TRUE, TRUE, TRUE)>>
  /\ propChanges = 0
  /\ shown = <<>>

\* The parent renders the comparator with another file (or none) on a side.
\* A callback of its own, it does not run ahead of a queued microtask.
SetProps(side, f) ==
  /\ task = <<>>
  /\ propChanges < MaxPropChanges
  /\ f # (IF side = "A" THEN fileA ELSE fileB)
  /\ IF side = "A" THEN fileA' = f /\ fileB' = fileB
                   ELSE fileB' = f /\ fileA' = fileA
  /\ dirty' = TRUE
  /\ propChanges' = propChanges + 1
  /\ UNCHANGED <<docView, contentA, contentB, differences, differencesA,
                 differencesB, isComparing, lastComparedKeyRef, reads, task,
                 diffCalls, published>>
  /\ UNCHANGED <<renderedDeps, pendingEffects, shown>>
  /\ UNCHANGED <<segVars, viewVars>>

\* readFileContent(file).then(setContentA / setContentB): the promise of a
\* started read resolves, whichever file the side holds by now.
ThenSetContent(r) ==
  /\ task = <<>>
  /\ r \in reads
  /\ reads' = reads \ {r}
  /\ contentA' = (IF r.side = "A" THEN r.value ELSE contentA)
  /\ contentB' = (IF r.side = "B" THEN r.value ELSE contentB)
  /\ dirty' = (dirty \/ contentA' # contentA \/ contentB' # contentB)
  /\ UNCHANGED <<docView, fileA, fileB, differences, differencesA,
                 differencesB, isComparing, lastComparedKeyRef, task,
                 diffCalls, published>>
  /\ UNCHANGED <<renderedDeps, pendingEffects, propChanges, shown>>
  /\ UNCHANGED <<segVars, viewVars>>

\* A render is committed: the effects whose dependencies differ from those
\* of the previous commit become due, with this render's values. React runs
\* the effects of the previous commit before it renders again.
Render ==
  /\ dirty
  /\ pendingEffects = <<>>
  /\ dirty' = FALSE
  /\ renderedDeps' = DepsNow
  /\ LET runA == DepsNow.fileA # renderedDeps.fileA
         runB == DepsNow.fileB # renderedDeps.fileB
         runComparison == DepsNow.comparison # renderedDeps.comparison
     IN pendingEffects' = (IF runA \/ runB \/ runComparison
                           THEN <<Closure(runA, runB, runComparison)>>
                           ELSE <<>>)
  /\ UNCHANGED appVars
  /\ UNCHANGED <<propChanges, shown>>
  /\ UNCHANGED <<segVars, viewVars>>

\* The effects of the last commit run, in the order of their declaration:
\* the two file loading effects, then the comparison effect.
FlushPassiveEffects ==
  /\ pendingEffects # <<>>
  /\ LET c == pendingEffects[1]
         e == ComparisonEffect(c.fileA, c.fileB, c.contentA, c.contentB,
                               c.isComparing, lastComparedKeyRef)
     IN /\ reads' = reads \cup (IF c.runA THEN FileEffect("A", c.fileA) ELSE {})
                          \cup (IF c.runB THEN FileEffect("B", c.fileB) ELSE {})
        /\ contentA' = (IF c.runA /\ c.fileA = <<>> THEN <<>> ELSE contentA)
        /\ contentB' = (IF c.runB /\ c.fileB = <<>> THEN <<>> ELSE contentB)
        /\ lastComparedKeyRef' = (IF c.runComparison THEN e.lastComparedKeyRef
                                  ELSE lastComparedKeyRef)
        /\ isComparing' = (IF c.runComparison /\ e.isComparing # c.isComparing
                           THEN e.isComparing ELSE isComparing)
        /\ task' = (IF c.runComparison THEN task \o e.task ELSE task)
  /\ pendingEffects' = <<>>
  /\ dirty' = (dirty \/ contentA' # contentA \/ contentB' # contentB
                     \/ isComparing' # isComparing)
  /\ UNCHANGED <<docView, fileA, fileB, differences, differencesA,
                 differencesB, diffCalls, published>>
  /\ UNCHANGED <<renderedDeps, propChanges, shown>>
  /\ UNCHANGED <<segVars, viewVars>>

\* The microtask queued by performComparison runs with the texts of the
\* render that queued it.
ComparisonMicrotask ==
  /\ task # <<>>
  /\ \E ops \in diff_main(task[1].a, task[1].b, MaxDiffOps) :
       LET res == SetResults(Segmentation(ops))
       IN /\ differences' = res.differences
          /\ differencesA' = res.differencesA
          /\ differencesB' = res.differencesB
  /\ isComparing' = FALSE
  /\ task' = Tail(task)
  /\ diffCalls' = diffCalls \cup {<<task[1].a, task[1].b>>}
  /\ shown' = <<[a |-> task[1].a, b |-> task[1].b]>>
  /\ dirty' = TRUE
  /\ UNCHANGED <<docView, fileA, fileB, contentA, contentB,
                 lastComparedKeyRef, reads, published>>
  /\ UNCHANGED <<renderedDeps, pendingEffects, propChanges>>
  /\ UNCHANGED <<segVars, viewVars>>

\* ------------------------------------------------------ DocumentViewer
\* String.prototype.slice(from, to): a negative index counts from the end.
SliceIndex(i, len) == IF i < 0 THEN Max(len + i, 0) ELSE Min(i, len)

Slice(str, from, to) ==
  LET f == SliceIndex(from, Len(str))
      t == SliceIndex(to, Len(str))
  IN IF f >= t THEN <<>> ELSE SubSeq(str, f + 1, t)

\* arr.sort((a, b) => a.startCol - b.startCol): a stable insertion.
RECURSIVE InsertByStartCol(_, _)
InsertByStartCol(sorted, seg) ==
  IF sorted = <<>> THEN <<seg>>
  ELSE IF Last(sorted).startCol <= seg.startCol THEN Append(sorted, seg)
  ELSE Append(InsertByStartCol(SubSeq(sorted, 1, Len(sorted) - 1), seg),
              Last(sorted))

RECURSIVE SortByStartCol(_)
SortByStartCol(arr) ==
  IF arr = <<>> THEN <<>>
  ELSE InsertByStartCol(SortByStartCol(SubSeq(arr, 1, Len(arr) - 1)), Last(arr))

\* Fault variant: a negative line index is filed under line 0.
LineKey_clamped(seg) == Max(seg.line, 0)

\* The key a segment is grouped under: map.get(seg.line).
LineKey(seg) == seg.line

\* The grouping loop, for one key: the segments of the list filed under it,
\* in list order.
RECURSIVE GroupOf(_, _, _)
GroupOf(segList, key, k) ==
  IF k > Len(segList) THEN <<>>
  ELSE (IF LineKey(segList[k]) = key THEN <<segList[k]>> ELSE <<>>)
         \o GroupOf(segList, key, k + 1)

\* segmentsByLine.get(lineIdx) ?? []
segmentsByLine(segList, lineIdx) == SortByStartCol(GroupOf(segList, lineIdx, 1))

\* Fault variant: the start column is used as given.
ClipStart_unclipped(startCol, len) == startCol

ClipStart(startCol, len) == Max(0, Min(startCol, len))

ClipEnd(start, endCol, len) == Max(start, Min(endCol, len))

\* segs.forEach of one line from segment k on, with the running cursor:
\* the pieces pushed and the cursor it ends with.
RECURSIVE ForEachSeg(_, _, _, _)
ForEachSeg(lineText, segs, k, cursor) ==
  IF k > Len(segs) THEN [pieces |-> <<>>, cursor |-> cursor]
  ELSE LET seg == segs[k]
           start == ClipStart(seg.startCol, Len(lineText))
           end == ClipEnd(start, seg.endCol, Len(lineText))
           plain == IF start > cursor
                    THEN <<[kind |-> "plain", id |-> 0,
                            text |-> Slice(lineText, cursor, start)]>>
                    ELSE <<>>
           high == IF end > start
                   THEN <<[kind |-> "highlight", id |-> seg.id,
                           text |-> Slice(lineText, start, end)]>>
                   ELSE <<>>
           rest == ForEachSeg(lineText, segs, k + 1, end)
       IN [pieces |-> plain \o high \o rest.pieces, cursor |-> rest.cursor]

\* The body of lines.map for one line: its label id (0: no label button)
\* and its pieces.
RenderLine(lineText, lineIdx, segList) ==
  LET segs == segmentsByLine(segList, lineIdx)
      labelId == IF segs = <<>> THEN 0 ELSE segs[1].id
      body == ForEachSeg(lineText, segs, 1, 0)
      tail == IF body.cursor < Len(lineText)
              THEN <<[kind |-> "plain", id |-> 0,
                      text |-> Slice(lineText, body.cursor, Len(lineText))]>>
              ELSE <<>>
  IN [labelId |-> labelId, pieces |-> body.pieces \o tail]

\* Inputs of a render: a text whose characters are all distinct, and
\* segments with any coordinates around it.
MaxViewLen == 2
MaxViewSegs == 1

PosChars == <<"p", "q", "r", "s", "t", "u">>

RECURSIVE ViewTexts(_)
ViewTexts(n) ==
  IF n = 0 THEN {<<>>}
  ELSE LET p == ViewTexts(n - 1)
       IN p \cup {Append(t, ch) : t \in {u \in p : Len(u) = n - 1},
                                  ch \in {PosChars[n], NL}}

ViewSegment(id) ==
  { [id |-> id, type |-> ty, line |-> l, startCol |-> sc, endCol |-> ec,
     text |-> <<>>]
    : ty \in {"addition"}, l \in (0 - 1)..MaxViewLen,
      sc \in (0 - 1)..(MaxViewLen + 1), ec \in (0 - 1)..(MaxViewLen + 1) }

RECURSIVE ViewSegLists(_)
ViewSegLists(n) ==
  IF n = 0 THEN {<<>>}
  ELSE LET p == ViewSegLists(n - 1)
       IN p \cup {Append(q, seg) : q \in {u \in p : Len(u) = n - 1},
                                   seg \in ViewSegment(n)}

\* Two segments at once: a second one behind, before or over the first, or
\* on a line the document does not have.
ViewPairs ==
  { << [id |-> 1, type |-> "deletion", line |-> 0, startCol |-> 1,
        endCol |-> 2, text |-> <<>>],
       [id |-> 2, type |-> "deletion", line |-> l, startCol |-> sc,
        endCol |-> sc + 1, text |-> <<>>] >>
    : l \in {0 - 1, 0, 1, 5}, sc \in 0..2 }

ViewInit ==
  /\ vContent \in ViewTexts(MaxViewLen)
                    \cup {<<"x", "y", "z">>, <<"x", "y", "z", NL, "w">>}
  /\ vDifferences \in ViewSegLists(MaxViewSegs) \cup ViewPairs
  /\ vLineIdx = 0
  /\ vRendered = <<>>

ViewIdle ==
  /\ vContent = <<>>
  /\ vDifferences = <<>>
  /\ vLineIdx = 0
  /\ vRendered = <<>>

ViewLines == Split(vContent, NL)

RenderNextLine ==
  /\ vLineIdx < Len(ViewLines)
  /\ vRendered' = Append(vRendered,
                         RenderLine(ViewLines[vLineIdx + 1], vLineIdx, vDifferences))
  /\ vLineIdx' = vLineIdx + 1
  /\ UNCHANGED <<vContent, vDifferences>>
  /\ UNCHANGED <<segVars, appVars, rxVars>>

\* ------------------------------------------------------- specifications
SegIdle ==
  /\ diffs = <<>>
  /\ idx = 1
  /\ cursorA = InitialCursor
  /\ cursorB = InitialCursor
  /\ diffId = InitialDiffId
  /\ diffItems = <<>>
  /\ diffsA = <<>>
  /\ diffsB = <<>>
  /\ prevRun = <<>>

\* The segmenter over drawn op sequences.
Init == SegInit /\ AppInit /\ RxIdle /\ ViewIdle
Next == ProcessDelete \/ ProcessInsert \/ ProcessEqual \/ Rerun
Spec == Init /\ [][Next]_vars

\* The App with its DocumentComparator.
InitApp == SegIdle /\ AppInit /\ RxIdle /\ ViewIdle
NextApp ==
  \/ \E side \in {"A", "B"}, f \in FileOrNull : SelectFile(side, f)
  \/ StartComparison
  \/ \E r \in reads : ReadResolved(r)
  \/ RunComparison
  \/ Back
SpecApp == InitApp /\ [][NextApp]_vars

\* The mounted DocumentComparator under a parent that may change its props.
InitComparator == SegIdle /\ ComparatorInit /\ ViewIdle
NextComparator ==
  \/ \E side \in {"A", "B"}, f \in PropValues : SetProps(side, f)
  \/ \E r \in reads : ThenSetContent(r)
  \/ Render
  \/ FlushPassiveEffects
  \/ ComparisonMicrotask
SpecComparator == InitComparator /\ [][NextComparator]_vars

\* One DocumentViewer render over drawn props.
InitView == SegIdle /\ AppInit /\ RxIdle /\ ViewInit
NextView == RenderNextLine
SpecView == InitView /\ [][NextView]_vars

\* ------------------------------------------------ App and comparator: claims
Mounted == docView = "compare"

\* In the App as written a comparator is mounted anew for every comparison
\* and its files do not change while it is mounted: there, whenever contentA
\* or contentB is empty, the report list and the segment lists are empty and
\* diff_main has not been called since the mount.
C6_EmptyInput ==
  /\ (contentA = <<>> \/ contentB = <<>>) =>
       /\ differences = <<>>
       /\ differencesA = <<>>
       /\ differencesB = <<>>
       /\ task = <<>>
       /\ diffCalls = {}
  /\ \A c \in diffCalls : c[1] # <<>> /\ c[2] # <<>>
  /\ task # <<>> => task[1].a # <<>> /\ task[1].b # <<>>

C6_Witness ==
  /\ Mounted
  /\ published
  /\ reads = {}
  /\ contentA = <<>>
  /\ contentB # <<>>

IdsOf(q) == {q[i].id : i \in DOMAIN q}

\* C7: in every state the report list and the two segment lists come from
\* one segmenter pass: the ids of the report items are the ids of
\* segmentsA and segmentsB together, each occurring once.
C7_AtomicResults ==
  /\ IdsOf(differences) = IdsOf(differencesA) \cup IdsOf(differencesB)
  /\ Len(differences) = Len(differencesA) + Len(differencesB)
  /\ Cardinality(IdsOf(differences)) = Len(differences)

C7_Witness ==
  /\ Mounted
  /\ ~isComparing
  /\ differencesA # <<>>
  /\ differencesB # <<>>
  /\ Len(differences) >= 3

\* The part of a file name after its last dot (the whole name without one),
\* in lower case.
ExtensionOf(name) ==
  LET S == {k \in 0..Len(name) :
              \A i \in (Len(name) - k + 1)..Len(name) : name[i] # "."}
      k == CHOOSE m \in S : \A j \in S : j <= m
  IN [i \in 1..k |-> LowerChar(name[Len(name) - k + i])]

Txt == <<"t", "x", "t">>
Docx == <<"d", "o", "c", "x">>
Doc == <<"d", "o", "c">>
Pdf == <<"p", "d", "f">>

\* What the claim as written expects of a file.
ExtractedAsClaimed(f) ==
  LET ext == ExtensionOf(f.name)
  IN IF ext = Txt THEN f.text
     ELSE IF ext \in {Docx, Doc} THEN f.docValue
     ELSE PdfPlaceholder

\* What the amended claim expects of a file.
ExtractedAsAmended(f) ==
  LET ext == ExtensionOf(f.name)
  IN IF ext = Txt THEN f.text
     ELSE IF ext \in {Docx, Doc} THEN f.docValue
     ELSE IF ext = Pdf THEN PdfPlaceholder
     ELSE <<>>

ReadsDone(side) == Mounted /\ \A r \in reads : r.side # side

Settled ==
  /\ ~dirty
  /\ pendingEffects = <<>>
  /\ task = <<>>

\* C6: whenever the comparison effect has run for a render in which contentA
\* or contentB is empty, the report list and the two segment lists are empty,
\* whatever an earlier comparison left in them, and diff_main is never called
\* with an empty text.
C6_AsClaimed ==
  /\ (Settled /\ (contentA = <<>> \/ contentB = <<>>)) =>
       /\ differences = <<>>
       /\ differencesA = <<>>
       /\ differencesB = <<>>
  /\ \A c \in diffCalls : c[1] # <<>> /\ c[2] # <<>>
  /\ \A i \in DOMAIN task : task[i].a # <<>> /\ task[i].b # <<>>

\* The results on display are those of a comparison of a with b.
ResultsOf(a, b) ==
  /\ shown = <<[a |-> a, b |-> b]>>
  /\ \E ops \in diff_main(a, b, MaxDiffOps) :
       LET res == SetResults(Segmentation(ops))
       IN /\ differences = res.differences
          /\ differencesA = res.differencesA
          /\ differencesB = res.differencesB

\* C11: once both files are set, both contents are non-empty, every read has
\* resolved and nothing is left to run, the report list and the segment
\* lists are the segmentation of the current (contentA, contentB), also when
\* a content changed while an earlier comparison was under way.
C11_Freshness ==
  (/\ Settled
   /\ reads = {}
   /\ fileA # <<>>
   /\ fileB # <<>>
   /\ contentA # <<>>
   /\ contentB # <<>>) => ResultsOf(contentA, contentB)

ContentOf(side) == IF side = "A" THEN contentA ELSE contentB
FileOf(side) == IF side = "A" THEN fileA ELSE fileB

\* C13: once the effects of the last render have run and no read of a side
\* is pending, the content held for that side is the text of the file the
\* side holds now, or empty if it holds none, in whatever order the reads
\* of the files it held before resolved.
C13_ReadOrdering ==
  \A side \in {"A", "B"} :
    (/\ ~dirty
     /\ pendingEffects = <<>>
     /\ \A r \in reads : r.side # side) =>
      ContentOf(side) = (IF FileOf(side) = <<>> THEN <<>>
                         ELSE readFileContent(FileOf(side)[1]))

\* ---------------------------------------------------- DocumentViewer: claims
RECURSIVE ConcatPieces(_, _)
ConcatPieces(pieces, k) ==
  IF k > Len(pieces) THEN <<>>
  ELSE pieces[k].text \o ConcatPieces(pieces, k + 1)

SegsWithLine(l) == {i \in DOMAIN vDifferences : vDifferences[i].line = l}

\* C8: a rendered line that carries a single segment, whatever its columns,
\* has pieces whose texts concatenate to the line's content.
C8_RoundTrip ==
  \A k \in DOMAIN vRendered :
    Cardinality(SegsWithLine(k - 1)) = 1 =>
      ConcatPieces(vRendered[k].pieces, 1) = ViewLines[k]

C8_Witness ==
  /\ vLineIdx = Len(ViewLines)
  /\ Len(ViewLines[1]) = 2
  /\ \E i \in DOMAIN vDifferences :
       /\ vDifferences[i].line = 0
       /\ vDifferences[i].startCol < 0
       /\ vDifferences[i].endCol = 1
  /\ Len(vRendered[1].pieces) = 2

InRange(c, len) == Max(0, Min(c, len))

\* C9: a highlighted run and a label on a line come only from a segment of
\* that line, so a segment whose line is not a line of the document appears
\* nowhere; a highlighted run reads the line between the segment's columns
\* clipped to [0, line length]; and every line of any input is rendered.
C9_Tolerance ==
  /\ Len(vRendered) = vLineIdx
  /\ vLineIdx <= Len(ViewLines)
  /\ \A k \in DOMAIN vRendered :
       LET line == ViewLines[k]
           r == vRendered[k]
       IN /\ r.labelId # 0 =>
               \E i \in SegsWithLine(k - 1) : vDifferences[i].id = r.labelId
          /\ \A j \in DOMAIN r.pieces :
               r.pieces[j].kind = "highlight" =>
                 \E i \in SegsWithLine(k - 1) :
                   LET seg == vDifferences[i]
                       lo == InRange(seg.startCol, Len(line))
                       hi == InRange(seg.endCol, Len(line))
                   IN /\ seg.id = r.pieces[j].id
                      /\ lo < hi
                      /\ r.pieces[j].text = SubSeq(line, lo + 1, hi)

C9_Witness ==
  /\ vLineIdx = Len(ViewLines)
  /\ Len(vDifferences) = 2
  /\ vDifferences[2].line = 5
  /\ \E j \in DOMAIN vRendered[1].pieces : vRendered[1].pieces[j].kind = "highlight"
  /\ vRendered[1].labelId = 1

====
